---- MODULE Spec2Model ----
(***************************************************************************)
(* Model of the photo catalog main window (monsterlangnachrumgetue.py):    *)
(* the catalog list, the list-widget selection, the scan-mode and interval *)
(* controls, and the export grouping MainWindow.get_images_to_export as it *)
(* is invoked by MainWindow.preview_csv.                                   *)
(*                                                                         *)
(* An ImageItem is represented by its file path (a number in Paths): the   *)
(* catalog never holds two items with the same path, so the path stands    *)
(* for the object's identity.  Rows and positions are 0-based as in the    *)
(* Python source; TLA+ sequences are 1-based, hence the "+ 1" in indexing. *)
(***************************************************************************)
EXTENDS Integers, Sequences, FiniteSets, TLC

\* ---------------------------------------------------------------- bounds
\* Number of distinct image files the user can add.
MaxImages == 3

\* Largest value given to the interval spin box in the model
\* (the widget itself allows SpinMinimum..SpinMaximum).
MaxInterval == 4

\* Longest file list handed to one add_images call.
MaxAdd == 2

\* Most zoom steps away from 100% in the image preview dialog.
MaxZoom == 2

\* ------------------------------------------------------ program constants
SpinMinimum == 1
SpinMaximum == 100

\* degrees of one rotation step and of a full turn in the preview dialog
QuarterTurn == 90
FullTurn == 360

ScanModes == {"Single", "Pair", "All", "Group of X", "Alternate"}

Paths == 1..MaxImages

Min(a, b) == IF a <= b THEN a ELSE b
Max(a, b) == IF a >= b THEN a ELSE b

\* Interval values the model enumerates: the spin box range, capped.
Intervals == SpinMinimum..Min(SpinMaximum, MaxInterval)

VARIABLES
    images,            \* self.images: the catalog, a list of ImageItems
    selected,          \* rows returned by image_list.selectedItems(), in order
    scan_mode,         \* scan_mode_combo.currentText()
    interval_spin,     \* interval_spin.value()
    preview_images,    \* local of get_images_to_export in the running handler
    groups_of_images,  \* its return value, held by the running handler
    dialog,            \* modal dialog the handler is showing, "none" if idle
    call,              \* invocations of get_images_to_export run step by step
    categories,        \* ImageItem.categories of every image: group -> values
    details,           \* ImageItem.text, .comment and .condition of every image
    exported_images,   \* self.exported_images, shown in the exported list
    csv_file,          \* what export_csv wrote through its local csvfile
    image_list,        \* texts of the items of the image list widget
    exported_list,     \* texts of the items of the exported list widget
    exported_selected, \* rows returned by exported_list.selectedItems()
    preview_dialog,    \* fields of the open ImagePreviewDialog
    default_lists,     \* the value lists held by the global DEFAULT_CATEGORIES
    categories_file,   \* the categories file: whether it exists, its content
    main_categories,   \* MainWindow.categories
    manager,           \* fields of the open CategoryManager
    categories_before  \* MainWindow.categories as they read when the
                       \* Category Manager was opened last

vars == <<images, selected, scan_mode, interval_spin,
          preview_images, groups_of_images, dialog, call,
          categories, details, exported_images, csv_file,
          image_list, exported_list, exported_selected, preview_dialog,
          default_lists, categories_file, main_categories, manager,
          categories_before>>

\* the two list widgets besides the selection of the image list
listVars == <<image_list, exported_list, exported_selected>>

\* the category definitions and the Category Manager
managerVars == <<default_lists, categories_file, main_categories, manager,
                 categories_before>>

\* the dialogs opened from the tools menu
toolVars == <<preview_dialog, managerVars>>

\* the metadata of the images, the exported list and the file system
dataVars == <<categories, details, exported_images, csv_file>>

\* the widgets and locals of the main window
guiVars == <<images, selected, scan_mode, interval_spin,
             preview_images, groups_of_images, dialog>>

\* ------------------------------------------------------- Python helpers
\* list(range(start, stop, step)); range() raises ValueError for step = 0,
\* which the callers test with RangeRaises before they use the list
Range(start, stop, step) ==
    LET n == IF step > 0
             THEN (IF stop <= start THEN 0 ELSE ((stop - start - 1) \div step) + 1)
             ELSE IF step < 0
             THEN (IF stop >= start THEN 0 ELSE ((start - stop - 1) \div (0 - step)) + 1)
             ELSE 0
    IN  [k \in 1..n |-> start + (k - 1) * step]

\* range(start, stop, 0): "ValueError: range() arg 3 must not be zero"
RangeRaises(step) == step = 0

\* the loop "for i in range(start, stop, step)" goes on at loop variable i
RangeHas(i, stop, step) == IF step > 0 THEN i < stop ELSE i > stop

\* s[a:b] for 0 <= a <= b (b is clamped to len(s))
Slice(s, a, b) ==
    LET hi == Min(b, Len(s))
    IN  [k \in 1..Max(hi - a, 0) |-> s[a + k]]

\* [image for group in groups for image in group]
RECURSIVE Flatten(_)
Flatten(groups) ==
    IF groups = <<>> THEN <<>> ELSE Head(groups) \o Flatten(Tail(groups))

\* sep.join(parts), as the list of the parts with sep between them
RECURSIVE Join(_, _)
Join(parts, sep) ==
    IF Len(parts) <= 1 THEN parts
    ELSE <<Head(parts), sep>> \o Join(Tail(parts), sep)

\* x in s
Contains(s, x) == \E k \in 1..Len(s) : s[k] = x

\* ImageItem.filename = os.path.basename(file_path): the files 2k-1 and 2k
\* lie in different directories and have the same name
Filename(p) == (p + 1) \div 2

\* category groups and values offered by the combo boxes (a part of
\* DEFAULT_CATEGORIES; "Condition" has its own combo box)
CategoryGroups == {"Type"}

CategoryValues(group) == IF group = "Type" THEN {"Postcard", "CDV"} ELSE {}

\* ------------------------------------------------------------- selection
get_selected_image_indices == selected

get_selected_images ==
    LET indices == get_selected_image_indices
    IN  [k \in 1..Len(indices) |-> images[indices[k] + 1]]

\* ------------------------------------------------------ export grouping
\* slip: every group holds the first image instead of the loop variable
GroupSingleFirst(preview) == [k \in 1..Len(preview) |-> <<preview[1]>>]

\* mode == "Single": [[image] for image in preview_images]
GroupSingle(preview) == [k \in 1..Len(preview) |-> <<preview[k]>>]

\* slip: range(0, len) without the step of 2, so the pairs overlap
GroupPairOverlapping(preview) ==
    LET r == Range(0, Len(preview), 1)
    IN  [k \in 1..Len(r) |-> Slice(preview, r[k], r[k] + 2)]

\* mode == "Pair": [preview_images[i:i + 2] for i in range(0, len, 2)]
GroupPair(preview) ==
    LET r == Range(0, Len(preview), 2)
    IN  [k \in 1..Len(r) |-> Slice(preview, r[k], r[k] + 2)]

\* slip: one group per image, as in "Single"
GroupAllSplit(preview) == [k \in 1..Len(preview) |-> <<preview[k]>>]

\* mode == "All": [preview_images]
GroupAll(preview) == <<preview>>

\* slip: the chunk size of "Pair" left in place of the interval
GroupOfXFixedTwo(preview, interval) ==
    LET r == Range(0, Len(preview), 2)
    IN  [k \in 1..Len(r) |-> Slice(preview, r[k], r[k] + 2)]

\* mode == "Group of X": [preview_images[i:i + interval] for i in range(0, len, interval)]
GroupOfX(preview, interval) ==
    LET r == Range(0, Len(preview), interval)
    IN  [k \in 1..Len(r) |-> Slice(preview, r[k], r[k] + interval)]

\* slip: range(0, len, interval), the inner loop ignores the step
AlternateGroupFromZero(preview, step, interval) ==
    LET r == Range(0, Len(preview), interval)
    IN  [k \in 1..Len(r) |-> preview[r[k] + 1]]

\* slip: group.insert(0, ...) instead of append, the group comes out reversed
AlternateGroupReversed(preview, step, interval) ==
    LET r == Range(step, Len(preview), interval)
    IN  [k \in 1..Len(r) |-> preview[r[Len(r) + 1 - k] + 1]]

\* inner loop of "Alternate": the group collected for one step
AlternateGroup(preview, step, interval) ==
    LET r == Range(step, Len(preview), interval)
    IN  [k \in 1..Len(r) |-> preview[r[k] + 1]]

NonEmpty(group) == group # <<>>

\* slip: the "if group" filter is missing, empty groups are kept
GroupAlternateUnfiltered(preview, interval) ==
    IF interval <= 1
    THEN <<preview>>
    ELSE [s \in 1..interval |-> AlternateGroup(preview, s - 1, interval)]

\* mode == "Alternate"
GroupAlternate(preview, interval) ==
    IF interval <= 1
    THEN <<preview>>
    ELSE SelectSeq([s \in 1..interval |-> AlternateGroup(preview, s - 1, interval)],
                   NonEmpty)

\* The list the grouping works on: the selected images, or a copy of the
\* whole catalog when nothing is selected and the mode is "All".
PreviewImages(mode) ==
    IF get_selected_images # <<>> THEN get_selected_images
    ELSE IF mode \in {"All"} THEN images
    ELSE <<>>

\* slip: the early "return []" is missing, every mode falls back to the catalog
get_images_to_exportAlwaysFallBack(mode, interval) ==
    LET preview == IF get_selected_images # <<>> THEN get_selected_images ELSE images
    IN  IF mode = "Single"          THEN GroupSingle(preview)
        ELSE IF mode = "Pair"       THEN GroupPair(preview)
        ELSE IF mode = "All"        THEN GroupAll(preview)
        ELSE IF mode = "Group of X" THEN GroupOfX(preview, interval)
        ELSE IF mode = "Alternate"  THEN GroupAlternate(preview, interval)
        ELSE <<>>

\* slip: "Pair" chunks by the interval setting instead of by 2
get_images_to_exportPairByInterval(mode, interval) ==
    LET preview == PreviewImages(mode)
    IN  IF get_selected_images = <<>> /\ mode \notin {"All"} THEN <<>>
        ELSE IF mode = "Single"     THEN GroupSingle(preview)
        ELSE IF mode = "Pair"       THEN GroupOfX(preview, interval)
        ELSE IF mode = "All"        THEN GroupAll(preview)
        ELSE IF mode = "Group of X" THEN GroupOfX(preview, interval)
        ELSE IF mode = "Alternate"  THEN GroupAlternate(preview, interval)
        ELSE <<>>

\* MainWindow.get_images_to_export, as a function of the widget state
get_images_to_export(mode, interval) ==
    LET preview == PreviewImages(mode)
    IN  IF get_selected_images = <<>> /\ mode \notin {"All"} THEN <<>>
        ELSE IF mode = "Single"     THEN GroupSingle(preview)
        ELSE IF mode = "Pair"       THEN GroupPair(preview)
        ELSE IF mode = "All"        THEN GroupAll(preview)
        ELSE IF mode = "Group of X" THEN GroupOfX(preview, interval)
        ELSE IF mode = "Alternate"  THEN GroupAlternate(preview, interval)
        ELSE <<>>

\* ------------------------------------------------------------ operations
\* number of invocations of the grouping that are run step by step
Callers == 1..2

\* no invocation is running
IdleCall ==
    [pc |-> "idle", selected_images |-> <<>>, images |-> <<>>, mode |-> "Single",
     interval |-> 1, preview_images |-> <<>>, i |-> 0, step |-> 0,
     group |-> <<>>, result |-> <<>>]

\* the main window after construction, before any image is added
InitWindow ==
    /\ images = <<>>
    /\ selected = <<>>
    /\ scan_mode = "Single"
    /\ interval_spin = 1
    /\ preview_images = <<>>
    /\ groups_of_images = <<>>
    /\ dialog = "none"
    /\ image_list = <<>>

\* a dict as the list of its items in insertion order; a new ImageItem
\* has categories = {}
EmptyDict == <<>>

\* text, comment and condition of a new ImageItem
NewDetails == [text |-> "", comment |-> "", condition |-> ""]

\* export_csv has not opened a file
NoFile == [header |-> <<>>, rows |-> <<>>]

\* no ImagePreviewDialog is open; zoom_level counts the zoom steps, the
\* factor being 1.2 to that power
ClosedPreview == [images |-> <<>>, current_index |-> 0, zoom_level |-> 0, rotation |-> 0]

\* the value lists of DEFAULT_CATEGORIES as the module creates them
DEFAULT_CATEGORIES ==
    [group \in CategoryGroups |-> IF group = "Type" THEN <<"Postcard", "CDV">> ELSE <<>>]

\* DEFAULT_CATEGORIES.copy(): a new dict whose values ARE the lists of
\* DEFAULT_CATEGORIES (shared), not copies of them
DefaultCopy == <<[group |-> "Type", shared |-> TRUE, values |-> <<>>]>>

\* no categories file in the configuration directory
NoCategoriesFile == [exists |-> FALSE, content |-> <<>>]

\* no CategoryManager is open
ClosedManager == [open |-> FALSE, categories |-> <<>>]

\* no dialog of the tools menu is open, the built-in categories are in use
InitTools ==
    /\ preview_dialog = ClosedPreview
    /\ default_lists = DEFAULT_CATEGORIES
    /\ categories_file = NoCategoriesFile
    /\ main_categories = DefaultCopy
    /\ manager = ClosedManager
    /\ categories_before = <<>>

\* no image carries metadata, nothing was exported, no file was written
InitRecords ==
    /\ categories = [p \in Paths |-> EmptyDict]
    /\ details = [p \in Paths |-> NewDetails]
    /\ exported_images = <<>>
    /\ csv_file = NoFile
    /\ exported_list = <<>>
    /\ exported_selected = <<>>

InitData ==
    /\ InitRecords
    /\ InitTools

Init ==
    /\ InitWindow
    /\ InitData
    /\ call = [c \in Callers |-> IdleCall]

\* slip: the test looks at the list as it was when the call began, so a
\* path repeated in the call is appended twice
AddAllOncePerCall(imgs, file_paths) ==
    imgs \o SelectSeq(file_paths, LAMBDA path : ~Contains(imgs, path))

\* the loop of add_images: skip a path already in the list, append the rest
RECURSIVE AddAll(_, _)
AddAll(imgs, file_paths) ==
    IF file_paths = <<>> THEN imgs
    ELSE AddAll(IF Contains(imgs, Head(file_paths)) THEN imgs
                ELSE Append(imgs, Head(file_paths)),
                Tail(file_paths))

\* slip: the item is put in front of the others (insertItem(0, ...))
RECURSIVE AddAllItemsInFront(_, _, _)
AddAllItemsInFront(items, imgs, file_paths) ==
    IF file_paths = <<>> THEN items
    ELSE IF Contains(imgs, Head(file_paths))
         THEN AddAllItemsInFront(items, imgs, Tail(file_paths))
         ELSE AddAllItemsInFront(<<Filename(Head(file_paths))>> \o items,
                                 Append(imgs, Head(file_paths)), Tail(file_paths))

\* the same loop on the list widget: one item with the file name is added
\* for every image that is appended
RECURSIVE AddAllItems(_, _, _)
AddAllItems(items, imgs, file_paths) ==
    IF file_paths = <<>> THEN items
    ELSE IF Contains(imgs, Head(file_paths))
         THEN AddAllItems(items, imgs, Tail(file_paths))
         ELSE AddAllItems(Append(items, Filename(Head(file_paths))),
                          Append(imgs, Head(file_paths)), Tail(file_paths))

FileLists == UNION {[1..n -> Paths] : n \in 1..MaxAdd}

add_images(file_paths) ==
    /\ dialog = "none"
    /\ images' = AddAll(images, file_paths)
    /\ selected' = IF Len(images') > Len(images) /\ selected = <<>>
                   THEN <<0>>
                   ELSE selected
    /\ LET created == {images'[k] : k \in (Len(images) + 1)..Len(images')}
       IN  /\ categories' = [p \in Paths |-> IF p \in created
                                             THEN EmptyDict ELSE categories[p]]
           /\ details' = [p \in Paths |-> IF p \in created
                                          THEN NewDetails ELSE details[p]]
    /\ UNCHANGED <<scan_mode, interval_spin, preview_images, groups_of_images, dialog, call,
                   exported_images, csv_file>>
    /\ image_list' = AddAllItems(image_list, images, file_paths)
    /\ UNCHANGED <<exported_list, exported_selected, toolVars>>

\* The user changes the selection of the image list by one row: a row that
\* is not selected is added to the selection, a selected one is removed.
itemSelectionChanged(row) ==
    /\ dialog = "none"
    /\ row \in 0..(Len(images) - 1)
    /\ selected' = IF Contains(selected, row)
                   THEN SelectSeq(selected, LAMBDA r : r # row)
                   ELSE Append(selected, row)
    /\ UNCHANGED <<images, scan_mode, interval_spin, preview_images, groups_of_images, dialog, call, dataVars>>
    /\ UNCHANGED <<listVars, toolVars>>

deselect_all ==
    /\ dialog = "none"
    /\ selected # <<>>
    /\ selected' = <<>>
    /\ UNCHANGED <<images, scan_mode, interval_spin, preview_images, groups_of_images, dialog, call, dataVars>>
    /\ UNCHANGED <<listVars, toolVars>>

\* The user picks another entry of the scan mode combo box.
scan_mode_changed(mode) ==
    /\ dialog = "none"
    /\ mode \in ScanModes
    /\ mode # scan_mode
    /\ scan_mode' = mode
    /\ UNCHANGED <<images, selected, interval_spin, preview_images, groups_of_images, dialog, call, dataVars>>
    /\ UNCHANGED <<listVars, toolVars>>

\* The interval widget is visible only for the two interval modes.
interval_widget_visible == scan_mode \in {"Group of X", "Alternate"}

\* The user edits the interval spin box.
interval_changed(value) ==
    /\ dialog = "none"
    /\ interval_widget_visible
    /\ value \in Intervals
    /\ value # interval_spin
    /\ interval_spin' = value
    /\ UNCHANGED <<images, selected, scan_mode, preview_images, groups_of_images, dialog, call, dataVars>>
    /\ UNCHANGED <<listVars, toolVars>>

\* slip: the selection is cleared once the selected images were read
preview_csvClearsSelection ==
    /\ dialog = "none"
    /\ preview_images' = PreviewImages(scan_mode)
    /\ groups_of_images' = get_images_to_export(scan_mode, interval_spin)
    /\ dialog' = IF groups_of_images' = <<>> THEN "warning" ELSE "preview"
    /\ selected' = <<>>
    /\ UNCHANGED <<images, scan_mode, interval_spin, call, dataVars>>
    /\ UNCHANGED <<listVars, toolVars>>

\* MainWindow.preview_csv: group, then warn or show the table dialog.
preview_csv ==
    /\ dialog = "none"
    /\ preview_images' = PreviewImages(scan_mode)
    /\ groups_of_images' = get_images_to_export(scan_mode, interval_spin)
    /\ dialog' = IF groups_of_images' = <<>> THEN "warning" ELSE "preview"
    /\ UNCHANGED <<images, selected, scan_mode, interval_spin, call, dataVars>>
    /\ UNCHANGED <<listVars, toolVars>>

\* The modal dialog is closed and the handler returns; its locals (the
\* groups, the file object csvfile, the dialog object) are gone.
dialog_closed ==
    /\ dialog # "none"
    /\ dialog' = "none"
    /\ preview_images' = <<>>
    /\ groups_of_images' = <<>>
    /\ csv_file' = NoFile
    /\ UNCHANGED <<images, selected, scan_mode, interval_spin, call,
                   categories, details, exported_images>>
    /\ preview_dialog' = ClosedPreview
    /\ UNCHANGED <<listVars, managerVars>>

Next ==
    \/ \E file_paths \in FileLists : add_images(file_paths)
    \/ \E row \in 0..(MaxImages - 1) : itemSelectionChanged(row)
    \/ deselect_all
    \/ \E mode \in ScanModes : scan_mode_changed(mode)
    \/ \E value \in Intervals : interval_changed(value)
    \/ preview_csv
    \/ dialog_closed

Spec == Init /\ [][Next]_vars

\* the entries 1..k in this order
Entries(k) == [j \in 1..k |-> j]

\* ------------------------------------------------- category assignment
\* group in d
HasKey(d, group) == \E k \in 1..Len(d) : d[k].group = group

\* d[group]
Get(d, group) == d[CHOOSE k \in 1..Len(d) : d[k].group = group].values

\* d[group] = values
Put(d, group, values) ==
    IF HasKey(d, group)
    THEN [k \in 1..Len(d) |-> IF d[k].group = group
                              THEN [group |-> group, values |-> values]
                              ELSE d[k]]
    ELSE Append(d, [group |-> group, values |-> values])

\* slip: the "text not in" test is missing
AddValueAlways(values, text) == Append(values, text)

\* if text not in values: values.append(text)
AddValue(values, text) ==
    IF Contains(values, text) THEN values ELSE Append(values, text)

\* values.remove(value): the first occurrence goes
RemoveFirst(values, value) ==
    LET first == CHOOSE k \in 1..Len(values) :
                     values[k] = value /\ \A j \in 1..(k - 1) : values[j] # value
    IN  [k \in 1..(Len(values) - 1) |-> IF k < first THEN values[k] ELSE values[k + 1]]

SelectedSet == {images[selected[k] + 1] : k \in 1..Len(selected)}

\* the category list of a group shows the values of the first selected image
ShownValues(group) ==
    LET d == categories[images[selected[1] + 1]]
    IN  IF HasKey(d, group) THEN Get(d, group) ELSE <<>>

\* MainWindow.category_selected: a value is picked in the combo of a group
category_selected(group, text) ==
    /\ dialog = "none"
    /\ text \in CategoryValues(group)
    /\ selected # <<>>
    /\ categories' =
         [p \in Paths |->
            IF p \in SelectedSet
            THEN LET d == IF HasKey(categories[p], group)
                          THEN categories[p]
                          ELSE Put(categories[p], group, <<>>)
                 IN  Put(d, group, AddValue(Get(d, group), text))
            ELSE categories[p]]
    /\ UNCHANGED <<guiVars, call, details, exported_images, csv_file>>
    /\ UNCHANGED <<listVars, toolVars>>

\* MainWindow.show_category_context_menu: "Remove" on a shown value
remove_category(group, value) ==
    /\ dialog = "none"
    /\ selected # <<>>
    /\ Contains(ShownValues(group), value)
    /\ categories' =
         [p \in Paths |->
            IF /\ p \in SelectedSet
               /\ HasKey(categories[p], group)
               /\ Contains(Get(categories[p], group), value)
            THEN Put(categories[p], group, RemoveFirst(Get(categories[p], group), value))
            ELSE categories[p]]
    /\ UNCHANGED <<guiVars, call, details, exported_images, csv_file>>
    /\ UNCHANGED <<listVars, toolVars>>

\* the catalog after the files 1..k were added, and the selection cleared
LoadedCatalogs == {Entries(k) : k \in 0..MaxImages}

LoadedWindow ==
    /\ images \in LoadedCatalogs
    /\ selected = <<>>
    /\ scan_mode = "Single"
    /\ interval_spin = 1
    /\ preview_images = <<>>
    /\ groups_of_images = <<>>
    /\ dialog = "none"
    /\ image_list = [k \in 1..Len(images) |-> Filename(images[k])]

\* new images, none of them with a category yet
CategoryInit ==
    /\ LoadedWindow
    /\ InitData
    /\ call = [c \in Callers |-> IdleCall]

CategoryNext ==
    \/ \E row \in 0..(MaxImages - 1) : itemSelectionChanged(row)
    \/ deselect_all
    \/ \E group \in CategoryGroups : \E text \in CategoryValues(group) :
           category_selected(group, text)
    \/ \E group \in CategoryGroups : \E value \in CategoryValues(group) :
           remove_category(group, value)

CategorySpec == CategoryInit /\ [][CategoryNext]_vars

\* ----------------------------------------------------------- CSV export
\* ImageItem.physical_size, computed from the pixel size of the file
PhysicalSize(p) == p % 2

\* the "Category" column: "group: v1, v2; " for every group with values
RECURSIVE CategoriesText(_)
CategoriesText(d) ==
    IF d = <<>> THEN <<>>
    ELSE (IF Head(d).values # <<>>
          THEN <<Head(d).group, ": ">> \o Join(Head(d).values, ", ") \o <<"; ">>
          ELSE <<>>) \o CategoriesText(Tail(d))

Header == <<"Filename(s)", "Physical Size", "Category", "Text", "Comment", "Condition">>

\* the row written for a non-empty group
Row(group) ==
    LET image == group[1]
    IN  [filenames |-> Join([k \in 1..Len(group) |-> Filename(group[k])], ", "),
         physical_size |-> PhysicalSize(image),
         categories_text |-> CategoriesText(categories[image]),
         text |-> details[image].text,
         comment |-> details[image].comment,
         condition |-> details[image].condition]

\* the loop that writes the data: a group that is empty gets no row
RECURSIVE DataRows(_)
DataRows(groups) ==
    IF groups = <<>> THEN <<>>
    ELSE (IF Head(groups) # <<>> THEN <<Row(Head(groups))>> ELSE <<>>)
         \o DataRows(Tail(groups))

\* MainWindow.export_csv up to the file dialog: group, then warn or ask
\* for the file
export_csv ==
    /\ dialog = "none"
    /\ preview_images' = PreviewImages(scan_mode)
    /\ groups_of_images' = get_images_to_export(scan_mode, interval_spin)
    /\ dialog' = IF groups_of_images' = <<>> THEN "export_warning" ELSE "save"
    /\ UNCHANGED <<images, selected, scan_mode, interval_spin, call, dataVars>>
    /\ UNCHANGED <<listVars, toolVars>>

\* slip: every image of every group is appended, exported before or not
write_csvAppendsAll ==
    /\ dialog = "save"
    /\ csv_file' = [header |-> Header, rows |-> DataRows(groups_of_images)]
    /\ exported_images' = exported_images \o Flatten(groups_of_images)
    /\ dialog' = "exported"
    /\ UNCHANGED <<images, selected, scan_mode, interval_spin, preview_images,
                   groups_of_images, call, categories, details>>
    /\ exported_list' = exported_list \o [k \in 1..Len(Flatten(groups_of_images)) |->
                                             Filename(Flatten(groups_of_images)[k])]
    /\ UNCHANGED <<image_list, exported_selected, toolVars>>

\* export_csv after a file was chosen: the file is written, the exported
\* images are added to the exported list, the status message is shown
write_csv ==
    /\ dialog = "save"
    /\ csv_file' = [header |-> Header, rows |-> DataRows(groups_of_images)]
    /\ exported_images' = AddAll(exported_images, Flatten(groups_of_images))
    /\ dialog' = "exported"
    /\ UNCHANGED <<images, selected, scan_mode, interval_spin, preview_images,
                   groups_of_images, call, categories, details>>
    /\ exported_list' = AddAllItems(exported_list, exported_images, Flatten(groups_of_images))
    /\ UNCHANGED <<image_list, exported_selected, toolVars>>

\* export_csv after a file was chosen that cannot be opened for writing
write_failed ==
    /\ dialog = "save"
    /\ dialog' = "critical"
    /\ UNCHANGED <<images, selected, scan_mode, interval_spin, preview_images,
                   groups_of_images, call, dataVars>>
    /\ UNCHANGED <<listVars, toolVars>>

\* metadata as the editing of a loaded catalog leaves it
EditedCategories(p) ==
    IF p % 3 = 1 THEN <<[group |-> "Type", values |-> <<"Postcard", "CDV">>]>>
    ELSE IF p % 3 = 2 THEN <<[group |-> "Type", values |-> <<>>]>>
    ELSE EmptyDict

EditedDetails(p) ==
    [text |-> IF p % 2 = 1 THEN "verso stamped" ELSE "",
     comment |-> IF p > 1 THEN "crease" ELSE "",
     condition |-> IF p % 3 = 0 THEN "Good" ELSE "Mint"]

ExportInit ==
    /\ LoadedWindow
    /\ categories = [p \in Paths |-> EditedCategories(p)]
    /\ details = [p \in Paths |-> EditedDetails(p)]
    /\ exported_images = <<>>
    /\ csv_file = NoFile
    /\ exported_list = <<>>
    /\ exported_selected = <<>>
    /\ InitTools
    /\ call = [c \in Callers |-> IdleCall]

ExportNext ==
    \/ \E row \in 0..(MaxImages - 1) : itemSelectionChanged(row)
    \/ deselect_all
    \/ \E mode \in ScanModes : scan_mode_changed(mode)
    \/ \E value \in Intervals : interval_changed(value)
    \/ preview_csv
    \/ export_csv
    \/ write_csv
    \/ write_failed
    \/ dialog_closed

ExportSpec == ExportInit /\ [][ExportNext]_vars

\* ------------------------------------------------- editing the catalog
\* sorted(rows) for rows that are all different
SortedRows(rows) ==
    LET S == {rows[k] : k \in 1..Len(rows)}
    IN  [k \in 1..Cardinality(S) |->
            CHOOSE r \in S : Cardinality({q \in S : q < r}) = k - 1]

\* rows.sort(reverse=True), applied to the sorted rows
Reverse(s) == [k \in 1..Len(s) |-> s[Len(s) + 1 - k]]

\* slip: s[a] = s[b] alone, the entry that was at a is lost
SwapOneWay(s, a, b) ==
    LET At(x) == IF x < 0 THEN x + Len(s) + 1 ELSE x + 1
    IN  [k \in 1..Len(s) |-> IF k = At(a) THEN s[At(b)] ELSE s[k]]

\* s[a], s[b] = s[b], s[a]; a negative position counts from the end
Swap(s, a, b) ==
    LET At(x) == IF x < 0 THEN x + Len(s) + 1 ELSE x + 1
    IN  [k \in 1..Len(s) |-> IF k = At(a) THEN s[At(b)]
                             ELSE IF k = At(b) THEN s[At(a)]
                             ELSE s[k]]

\* for idx in indices: swap position idx with position idx + delta
RECURSIVE SwapEach(_, _, _)
SwapEach(s, indices, delta) ==
    IF indices = <<>> THEN s
    ELSE SwapEach(Swap(s, Head(indices), Head(indices) + delta), Tail(indices), delta)

\* s.pop(idx), takeItem(idx)
RemoveAt(s, idx) ==
    [k \in 1..(Len(s) - 1) |-> IF k <= idx THEN s[k] ELSE s[k + 1]]

\* slip: the loop is left after its first turn
PopEachOnce(s, indices) ==
    IF indices = <<>> THEN s ELSE RemoveAt(s, Head(indices))

\* for idx in indices: pop position idx
RECURSIVE PopEach(_, _)
PopEach(s, indices) ==
    IF indices = <<>> THEN s
    ELSE PopEach(RemoveAt(s, Head(indices)), Tail(indices))

\* What a list widget reports as selected once items were taken out of it:
\* the selected items are gone, and Qt moves the current item to a
\* remaining row, which it may select.
SelectionAfterRemoval(count) == {<<>>} \cup {<<r>> : r \in 0..(count - 1)}

\* MainWindow.move_selected_up; setCurrentRow leaves the row it is given as
\* the selected one, so the last turn of the loop decides the selection
move_selected_up ==
    /\ dialog = "none"
    /\ LET indices == get_selected_image_indices
           sorted == SortedRows(indices)
       IN  IF indices = <<>> \/ sorted[1] = 0
           THEN UNCHANGED <<images, image_list, selected>>
           ELSE /\ images' = SwapEach(images, sorted, 0 - 1)
                /\ image_list' = SwapEach(image_list, sorted, 0 - 1)
                /\ selected' = <<sorted[Len(sorted)] - 1>>
    /\ UNCHANGED <<scan_mode, interval_spin, preview_images, groups_of_images,
                   dialog, call, dataVars, exported_list, exported_selected, toolVars>>

\* MainWindow.move_selected_down
move_selected_down ==
    /\ dialog = "none"
    /\ LET indices == get_selected_image_indices
           sorted == Reverse(SortedRows(indices))
       IN  IF indices = <<>> \/ sorted[1] >= Len(images) - 1
           THEN UNCHANGED <<images, image_list, selected>>
           ELSE /\ images' = SwapEach(images, sorted, 1)
                /\ image_list' = SwapEach(image_list, sorted, 1)
                /\ selected' = <<sorted[Len(sorted)] + 1>>
    /\ UNCHANGED <<scan_mode, interval_spin, preview_images, groups_of_images,
                   dialog, call, dataVars, exported_list, exported_selected, toolVars>>

\* MainWindow.delete_selected up to the question: nothing selected, nothing
\* happens; else the confirmation is asked
delete_selected ==
    /\ dialog = "none"
    /\ dialog' = IF get_selected_image_indices = <<>> THEN "none" ELSE "confirm_delete"
    /\ UNCHANGED <<images, selected, scan_mode, interval_spin, preview_images,
                   groups_of_images, call, dataVars, listVars, toolVars>>

\* delete_selected after the answer Yes (the answer No is dialog_closed)
delete_confirmed ==
    /\ dialog = "confirm_delete"
    /\ LET indices == Reverse(SortedRows(get_selected_image_indices))
       IN  /\ images' = PopEach(images, indices)
           /\ image_list' = PopEach(image_list, indices)
    /\ selected' \in SelectionAfterRemoval(Len(images'))
    /\ dialog' = "none"
    /\ UNCHANGED <<scan_mode, interval_spin, preview_images, groups_of_images,
                   call, dataVars, exported_list, exported_selected, toolVars>>

\* the window as it starts, with an empty catalog
CatalogInit == Init

CatalogNext ==
    \/ \E file_paths \in FileLists : add_images(file_paths)
    \/ \E row \in 0..(MaxImages - 1) : itemSelectionChanged(row)
    \/ move_selected_up
    \/ move_selected_down
    \/ delete_selected
    \/ delete_confirmed
    \/ dialog_closed

CatalogSpec == CatalogInit /\ [][CatalogNext]_vars

\* ------------------------------------------------- the exported list
\* The user changes the selection of the exported list by one row.
exported_itemSelectionChanged(row) ==
    /\ dialog = "none"
    /\ row \in 0..(Len(exported_list) - 1)
    /\ exported_selected' = IF Contains(exported_selected, row)
                            THEN SelectSeq(exported_selected, LAMBDA r : r # row)
                            ELSE Append(exported_selected, row)
    /\ UNCHANGED <<guiVars, call, dataVars, image_list, exported_list, toolVars>>

\* slip: the rows are read once before the loop and used as they were
TakeEachStale(s, rows) == PopEach(s, rows)

\* for item in selected_items: index = row(item); take the item out at
\* index.  rows holds the row of every item still to be taken; taking one
\* out moves the items below it up by one.
RECURSIVE TakeEach(_, _)
TakeEach(s, rows) ==
    IF rows = <<>> THEN s
    ELSE LET index == Head(rows)
         IN  TakeEach(RemoveAt(s, index),
                      [k \in 1..(Len(rows) - 1) |->
                          IF rows[k + 1] > index THEN rows[k + 1] - 1 ELSE rows[k + 1]])

\* MainWindow.transfer_back_to_list1
transfer_back_to_list1 ==
    /\ dialog = "none"
    /\ IF exported_selected = <<>>
       THEN UNCHANGED <<exported_list, exported_images, exported_selected>>
       ELSE /\ exported_list' = TakeEach(exported_list, exported_selected)
            /\ exported_images' = TakeEach(exported_images, exported_selected)
            /\ exported_selected' \in SelectionAfterRemoval(Len(exported_list'))
    /\ UNCHANGED <<guiVars, call, categories, details, csv_file, image_list, toolVars>>

\* The interval stays at 1 here, where "Group of X" groups as "Single" and
\* "Alternate" as "All": the modes that differ are these three.
TransferModes == {"Single", "Pair", "All"}

TransferNext ==
    \/ \E row \in 0..(MaxImages - 1) : itemSelectionChanged(row)
    \/ \E mode \in TransferModes : scan_mode_changed(mode)
    \/ export_csv
    \/ write_csv
    \/ dialog_closed
    \/ \E row \in 0..(MaxImages - 1) : exported_itemSelectionChanged(row)
    \/ transfer_back_to_list1

TransferSpec == ExportInit /\ [][TransferNext]_vars

\* ------------------------------------------------ image preview dialog
\* MainWindow.open_preview_dialog: with nothing selected an information
\* box, else the dialog on the selected images, at the first of them
open_preview_dialog ==
    /\ dialog = "none"
    /\ IF get_selected_images = <<>>
       THEN /\ dialog' = "information"
            /\ UNCHANGED preview_dialog
       ELSE /\ dialog' = "image_preview"
            /\ preview_dialog' = [images |-> get_selected_images, current_index |-> 0,
                                  zoom_level |-> 0, rotation |-> 0]
    /\ UNCHANGED <<images, selected, scan_mode, interval_spin, preview_images,
                   groups_of_images, call, dataVars, listVars, managerVars>>

\* what every button of the preview dialog leaves alone
PreviewFrame ==
    UNCHANGED <<guiVars, call, dataVars, listVars, managerVars>>

\* slip: the test admits the last image, the index leaves the list
show_nextPastEnd ==
    /\ dialog = "image_preview"
    /\ preview_dialog' =
         IF preview_dialog.current_index <= Len(preview_dialog.images) - 1
         THEN [preview_dialog EXCEPT !.current_index = @ + 1]
         ELSE preview_dialog
    /\ PreviewFrame

\* ImagePreviewDialog.show_next
show_next ==
    /\ dialog = "image_preview"
    /\ preview_dialog' =
         IF preview_dialog.current_index < Len(preview_dialog.images) - 1
         THEN [preview_dialog EXCEPT !.current_index = @ + 1]
         ELSE preview_dialog
    /\ PreviewFrame

\* ImagePreviewDialog.show_previous
show_previous ==
    /\ dialog = "image_preview"
    /\ preview_dialog' =
         IF preview_dialog.current_index > 0
         THEN [preview_dialog EXCEPT !.current_index = @ - 1]
         ELSE preview_dialog
    /\ PreviewFrame

\* ImagePreviewDialog.zoom_in: zoom_level *= 1.2
zoom_in ==
    /\ dialog = "image_preview"
    /\ preview_dialog.zoom_level < MaxZoom
    /\ preview_dialog' = [preview_dialog EXCEPT !.zoom_level = @ + 1]
    /\ PreviewFrame

\* ImagePreviewDialog.zoom_out: zoom_level /= 1.2
zoom_out ==
    /\ dialog = "image_preview"
    /\ preview_dialog.zoom_level > 0 - MaxZoom
    /\ preview_dialog' = [preview_dialog EXCEPT !.zoom_level = @ - 1]
    /\ PreviewFrame

\* ImagePreviewDialog.zoom_reset: zoom_level = 1.0
zoom_reset ==
    /\ dialog = "image_preview"
    /\ preview_dialog' = [preview_dialog EXCEPT !.zoom_level = 0]
    /\ PreviewFrame

\* ImagePreviewDialog.rotate_left; Python's % gives a result in 0..359
rotate_left ==
    /\ dialog = "image_preview"
    /\ preview_dialog' = [preview_dialog EXCEPT !.rotation = (@ - QuarterTurn) % FullTurn]
    /\ PreviewFrame

\* ImagePreviewDialog.rotate_right
rotate_right ==
    /\ dialog = "image_preview"
    /\ preview_dialog' = [preview_dialog EXCEPT !.rotation = (@ + QuarterTurn) % FullTurn]
    /\ PreviewFrame

PreviewNext ==
    \/ \E row \in 0..(MaxImages - 1) : itemSelectionChanged(row)
    \/ open_preview_dialog
    \/ show_next
    \/ show_previous
    \/ zoom_in
    \/ zoom_out
    \/ zoom_reset
    \/ rotate_left
    \/ rotate_right
    \/ dialog_closed

PreviewSpec == CategoryInit /\ [][PreviewNext]_vars

\* ------------------------------------------------------ category manager
(***************************************************************************)
(* A categories dict is the list of its items; an item is the group name   *)
(* and its value list.  The lists that DEFAULT_CATEGORIES.copy() hands out *)
(* are the lists of DEFAULT_CATEGORIES themselves (shared = TRUE, content  *)
(* in default_lists); the lists made by json.load and the [] of add_group  *)
(* belong to the dict that holds them (shared = FALSE, content in values). *)
(***************************************************************************)
ManagerGroupNames == {"Type"}

ManagerValues == {"Postcard", "CDV", "Tintype"}

\* the content of the list of an item
ListOf(item) == IF item.shared THEN default_lists[item.group] ELSE item.values

\* what a dict reads as: the groups with the content of their lists
DictValue(d) == [k \in 1..Len(d) |-> [group |-> d[k].group, values |-> ListOf(d[k])]]

\* json.load(f): new lists with the content of the file
FromFile(content) ==
    [k \in 1..Len(content) |->
        [group |-> content[k].group, shared |-> FALSE, values |-> content[k].values]]

\* CategoryManager.load_categories
load_categories ==
    IF categories_file.exists THEN FromFile(categories_file.content) ELSE DefaultCopy

\* position of a group in a dict
KeyIndex(d, group) == CHOOSE k \in 1..Len(d) : d[k].group = group

\* MainWindow.open_category_manager up to dialog.exec(): the dialog loads
\* its own categories
open_category_manager ==
    /\ dialog = "none"
    /\ dialog' = "manager"
    /\ manager' = [open |-> TRUE, categories |-> load_categories]
    /\ categories_before' = DictValue(main_categories)
    /\ UNCHANGED <<images, selected, scan_mode, interval_spin, preview_images,
                   groups_of_images, call, dataVars, listVars, preview_dialog,
                   default_lists, categories_file, main_categories>>

\* what the buttons of the Category Manager leave alone
ManagerFrame ==
    UNCHANGED <<guiVars, call, dataVars, listVars, preview_dialog,
                categories_file, main_categories, categories_before>>

\* the list of a group of the dialog gets a new content: the list object
\* is changed in place
ChangeList(group, values) ==
    LET k == KeyIndex(manager.categories, group)
    IN  IF manager.categories[k].shared
        THEN /\ default_lists' = [default_lists EXCEPT ![group] = values]
             /\ UNCHANGED manager
        ELSE /\ manager' = [manager EXCEPT !.categories[k].values = values]
             /\ UNCHANGED default_lists

\* CategoryManager.add_group: a name that exists is refused with a warning
add_group(group_name) ==
    /\ dialog = "manager"
    /\ manager' =
         IF HasKey(manager.categories, group_name) THEN manager
         ELSE [manager EXCEPT !.categories =
                  Append(@, [group |-> group_name, shared |-> FALSE, values |-> <<>>])]
    /\ UNCHANGED default_lists
    /\ ManagerFrame

\* CategoryManager.delete_group, answered Yes
delete_group(group_name) ==
    /\ dialog = "manager"
    /\ HasKey(manager.categories, group_name)
    /\ manager' = [manager EXCEPT !.categories =
                      SelectSeq(@, LAMBDA item : item.group # group_name)]
    /\ UNCHANGED default_lists
    /\ ManagerFrame

\* CategoryManager.add_value: a value that exists is refused with a warning
add_value(group_name, value) ==
    /\ dialog = "manager"
    /\ HasKey(manager.categories, group_name)
    /\ LET values == ListOf(manager.categories[KeyIndex(manager.categories, group_name)])
       IN  IF Contains(values, value)
           THEN UNCHANGED <<manager, default_lists>>
           ELSE ChangeList(group_name, Append(values, value))
    /\ ManagerFrame

\* CategoryManager.value_changed: the item at index was edited to new_value;
\* a value that exists is refused and the item text is put back
value_changed(group_name, index, new_value) ==
    /\ dialog = "manager"
    /\ HasKey(manager.categories, group_name)
    /\ LET values == ListOf(manager.categories[KeyIndex(manager.categories, group_name)])
       IN  /\ index \in 0..(Len(values) - 1)
           /\ IF Contains(values, new_value)
              THEN UNCHANGED <<manager, default_lists>>
              ELSE ChangeList(group_name, [values EXCEPT ![index + 1] = new_value])
    /\ ManagerFrame

\* CategoryManager.show_value_context_menu: "Delete" on the item at index,
\* answered Yes
delete_value(group_name, index) ==
    /\ dialog = "manager"
    /\ HasKey(manager.categories, group_name)
    /\ LET values == ListOf(manager.categories[KeyIndex(manager.categories, group_name)])
       IN  /\ index \in 0..(Len(values) - 1)
           /\ ChangeList(group_name, RemoveAt(values, index))
    /\ ManagerFrame

\* CategoryManager.save_categories and, the dialog being accepted,
\* MainWindow.reload_categories
save_categories ==
    /\ dialog = "manager"
    /\ categories_file' = [exists |-> TRUE, content |-> DictValue(manager.categories)]
    /\ main_categories' = FromFile(categories_file'.content)
    /\ manager' = ClosedManager
    /\ dialog' = "none"
    /\ UNCHANGED <<images, selected, scan_mode, interval_spin, preview_images,
                   groups_of_images, call, dataVars, listVars, preview_dialog,
                   default_lists, categories_before>>

\* Cancel: QDialog.reject, the dialog is closed and nothing is reloaded
reject ==
    /\ dialog = "manager"
    /\ manager' = ClosedManager
    /\ dialog' = "none"
    /\ UNCHANGED <<images, selected, scan_mode, interval_spin, preview_images,
                   groups_of_images, call, dataVars, listVars, preview_dialog,
                   default_lists, categories_file, main_categories, categories_before>>

\* the categories file of an earlier session, if there is one
CategoriesFiles ==
    {NoCategoriesFile,
     [exists |-> TRUE, content |-> <<[group |-> "Type", values |-> <<"Postcard">>]>>]}

\* the window as it starts, with or without a categories file
ManagerInit ==
    /\ InitWindow
    /\ InitRecords
    /\ call = [c \in Callers |-> IdleCall]
    /\ preview_dialog = ClosedPreview
    /\ default_lists = DEFAULT_CATEGORIES
    /\ categories_file \in CategoriesFiles
    /\ main_categories = load_categories
    /\ manager = ClosedManager
    /\ categories_before = <<>>

ManagerNext ==
    \/ open_category_manager
    \/ \E group_name \in ManagerGroupNames : add_group(group_name)
    \/ \E group_name \in ManagerGroupNames : delete_group(group_name)
    \/ \E group_name \in ManagerGroupNames : \E value \in ManagerValues :
           add_value(group_name, value)
    \/ \E group_name \in ManagerGroupNames :
           \E index \in 0..(Cardinality(ManagerValues) - 1) :
               \E new_value \in ManagerValues :
                   value_changed(group_name, index, new_value)
    \/ \E group_name \in ManagerGroupNames :
           \E index \in 0..(Cardinality(ManagerValues) - 1) :
               delete_value(group_name, index)
    \/ save_categories
    \/ reject

ManagerSpec == ManagerInit /\ [][ManagerNext]_vars

\* ------------------------------------- get_images_to_export step by step
(***************************************************************************)
(* The body of get_images_to_export executed one statement or loop         *)
(* iteration at a time, each invocation with its own frame of locals       *)
(* (call[c]) and its own snapshot of what it reads: the selected images,   *)
(* the catalog, the mode text and the interval value.  The function does   *)
(* not validate these values, so the snapshot also ranges over an          *)
(* unknown mode text and over intervals below the spin box minimum.        *)
(* Entries of a snapshot are numbered by their position.                   *)
(***************************************************************************)
\* what an invocation reads: a non-empty selection out of the full catalog,
\* or no selection and a catalog of any length
Snapshots ==
    {[selected_images |-> Entries(k), images |-> Entries(MaxImages)] : k \in 1..MaxImages}
    \cup {[selected_images |-> <<>>, images |-> Entries(k)] : k \in 0..MaxImages}

\* a mode text none of the branches tests for
UnknownMode == "Triple"

CallModes == ScanModes \cup {UnknownMode}

CallIntervals == (0 - 1)..MaxInterval

NewCall(snapshot, mode, interval) ==
    [pc |-> "start",
     selected_images |-> snapshot.selected_images,
     images |-> snapshot.images,
     mode |-> mode, interval |-> interval,
     preview_images |-> <<>>, i |-> 0, step |-> 0,
     group |-> <<>>, result |-> <<>>]

NewCalls == {NewCall(snapshot, mode, interval) :
                snapshot \in Snapshots, mode \in CallModes, interval \in CallIntervals}

Finished(c) == call[c].pc \in {"done", "raised"}

\* slip: the groups are collected in a list shared by all invocations
\* (caller 1's list) instead of a local one
AppendGroupShared(c, group) == Append(call[1].result, group)

\* result.append(group) on the invocation's own list
AppendGroup(c, group) == Append(call[c].result, group)

\* the loop variable of "for i in range(start, stop, step)" after one turn
NextIndex(i, step) == i + step

\* slip: the outer loop starts from a counter kept between invocations
FirstStepKept(c) == c - 1

\* "for step in range(interval)" starts at 0
FirstStep(c) == 0

\* slip: a retry in place of the return, the function starts over
ReturnRetry(c, groups) ==
    call' = [call EXCEPT ![c].pc = "start", ![c].result = <<>>]

\* "return groups"
Return(c, groups) ==
    call' = [call EXCEPT ![c].pc = "done", ![c].result = groups]

\* lines 1223-1258: read the mode, take the selected images or fall back to
\* the catalog, and enter the branch of the mode
CallStart(c) ==
    /\ call[c].pc = "start"
    /\ LET mode == call[c].mode
           interval == call[c].interval
           preview == IF call[c].selected_images # <<>> THEN call[c].selected_images
                      ELSE IF mode \in {"All"} THEN call[c].images
                      ELSE <<>>
           Enter(pc) == call' = [call EXCEPT ![c].pc = pc,
                                             ![c].preview_images = preview,
                                             ![c].i = 0,
                                             ![c].step = FirstStep(c)]
       IN  IF call[c].selected_images = <<>> /\ mode \notin {"All"}
           THEN Return(c, <<>>)
           ELSE IF mode = "Single" THEN Enter("single")
           ELSE IF mode = "Pair" THEN Enter("pair")
           ELSE IF mode = "All"
                THEN call' = [call EXCEPT ![c].pc = "done",
                                          ![c].preview_images = preview,
                                          ![c].result = <<preview>>]
           ELSE IF mode = "Group of X"
                THEN IF RangeRaises(interval)
                     THEN call' = [call EXCEPT ![c].pc = "raised",
                                               ![c].preview_images = preview]
                     ELSE Enter("group_of_x")
           ELSE IF mode = "Alternate"
                THEN IF interval <= 1
                     THEN call' = [call EXCEPT ![c].pc = "done",
                                               ![c].preview_images = preview,
                                               ![c].result = <<preview>>]
                     ELSE Enter("alternate")
           ELSE Return(c, <<>>)
    /\ UNCHANGED <<guiVars, dataVars>>
    /\ UNCHANGED <<listVars, toolVars>>

\* line 1237: one turn of [[image] for image in preview_images], or return
CallSingle(c) ==
    /\ call[c].pc = "single"
    /\ LET i == call[c].i
           preview == call[c].preview_images
       IN  IF i < Len(preview)
           THEN call' = [call EXCEPT ![c].result = AppendGroup(c, <<preview[i + 1]>>),
                                     ![c].i = NextIndex(i, 1)]
           ELSE Return(c, call[c].result)
    /\ UNCHANGED <<guiVars, dataVars>>
    /\ UNCHANGED <<listVars, toolVars>>

\* slip: the slice ends one entry early, preview_images[i:i + size - 1]
CallChunkShort(c, pc, size) ==
    /\ call[c].pc = pc
    /\ LET i == call[c].i
           preview == call[c].preview_images
       IN  IF RangeHas(i, Len(preview), size)
           THEN call' = [call EXCEPT ![c].result = AppendGroup(c, Slice(preview, i, i + size - 1)),
                                     ![c].i = NextIndex(i, size)]
           ELSE Return(c, call[c].result)
    /\ UNCHANGED <<guiVars, dataVars>>
    /\ UNCHANGED <<listVars, toolVars>>

\* lines 1241-1242 and 1251-1252: one turn of
\* [preview_images[i:i + size] for i in range(0, len(preview_images), size)]
CallChunk(c, pc, size) ==
    /\ call[c].pc = pc
    /\ LET i == call[c].i
           preview == call[c].preview_images
       IN  IF RangeHas(i, Len(preview), size)
           THEN call' = [call EXCEPT ![c].result = AppendGroup(c, Slice(preview, i, i + size)),
                                     ![c].i = NextIndex(i, size)]
           ELSE Return(c, call[c].result)
    /\ UNCHANGED <<guiVars, dataVars>>
    /\ UNCHANGED <<listVars, toolVars>>

CallPair(c) == CallChunk(c, "pair", 2)

CallGroupOfX(c) == CallChunk(c, "group_of_x", call[c].interval)

\* lines 1261-1262 and 1267: one turn of "for step in range(interval)"
CallAlternate(c) ==
    /\ call[c].pc = "alternate"
    /\ IF call[c].step < call[c].interval
       THEN call' = [call EXCEPT ![c].pc = "alternate_inner",
                                 ![c].group = <<>>,
                                 ![c].i = call[c].step]
       ELSE Return(c, call[c].result)
    /\ UNCHANGED <<guiVars, dataVars>>
    /\ UNCHANGED <<listVars, toolVars>>

\* lines 1263-1266: one turn of the inner loop, or the end of the group
CallAlternateInner(c) ==
    /\ call[c].pc = "alternate_inner"
    /\ LET i == call[c].i
           preview == call[c].preview_images
           group == call[c].group
       IN  IF RangeHas(i, Len(preview), call[c].interval)
           THEN call' = [call EXCEPT ![c].group = Append(group, preview[i + 1]),
                                     ![c].i = NextIndex(i, call[c].interval)]
           ELSE call' = [call EXCEPT ![c].pc = "alternate",
                                     ![c].result = IF group # <<>>
                                                   THEN AppendGroup(c, group)
                                                   ELSE call[c].result,
                                     ![c].step = call[c].step + 1]
    /\ UNCHANGED <<guiVars, dataVars>>
    /\ UNCHANGED <<listVars, toolVars>>

CallStep(c) ==
    \/ CallStart(c)
    \/ CallSingle(c)
    \/ CallPair(c)
    \/ CallGroupOfX(c)
    \/ CallAlternate(c)
    \/ CallAlternateInner(c)

\* one invocation
CallInit ==
    /\ InitWindow
    /\ InitData
    /\ \E new \in NewCalls : call = [c \in Callers |-> IF c = 1 THEN new ELSE IdleCall]

CallNext == CallStep(1)

CallSpec == CallInit /\ [][CallNext]_vars

\* the interpreter keeps running the invocation
CallFairSpec == CallSpec /\ WF_vars(CallNext)

\* two invocations, their steps interleaved in any order
ConcurrentInit ==
    /\ InitWindow
    /\ InitData
    /\ call \in [Callers -> NewCalls]

ConcurrentNext == \E c \in Callers : CallStep(c)

ConcurrentSpec == ConcurrentInit /\ [][ConcurrentNext]_vars

\* What one invocation returns when it runs from start to end with nothing
\* else in between: the list comprehensions of the source taken whole.
RunAlone(selected_images, imgs, mode, interval) ==
    LET preview == IF selected_images # <<>> THEN selected_images
                   ELSE IF mode \in {"All"} THEN imgs
                   ELSE <<>>
        Returns(groups) == [pc |-> "done", result |-> groups]
    IN  IF selected_images = <<>> /\ mode \notin {"All"} THEN Returns(<<>>)
        ELSE IF mode = "Single" THEN Returns(GroupSingle(preview))
        ELSE IF mode = "Pair" THEN Returns(GroupPair(preview))
        ELSE IF mode = "All" THEN Returns(GroupAll(preview))
        ELSE IF mode = "Group of X"
             THEN IF RangeRaises(interval)
                  THEN [pc |-> "raised", result |-> <<>>]
                  ELSE Returns(GroupOfX(preview, interval))
        ELSE IF mode = "Alternate" THEN Returns(GroupAlternate(preview, interval))
        ELSE Returns(<<>>)

TypeOK ==
    /\ \A k \in 1..Len(images) : images[k] \in Paths
    /\ \A k \in 1..Len(selected) : selected[k] \in 0..(Len(images) - 1)
    /\ scan_mode \in ScanModes
    /\ interval_spin \in Intervals
    /\ dialog \in {"none", "warning", "preview", "export_warning", "save",
                  "exported", "critical", "confirm_delete", "image_preview",
                  "information", "manager"}

\* ================================================================ claims
\* get_images_to_export has returned inside the running handler
Returned == dialog # "none"

\* number of entries handed to the grouping
n == Len(preview_images)

Count(s, e) == Cardinality({k \in 1..Len(s) : s[k] = e})

\* C1: in every mode and for every interval >= 1, the entries of all
\* returned groups together are, as a multiset, exactly the input entries:
\* none is dropped, none occurs twice.
C1_MultisetPreserved ==
    Returned =>
        \A e \in Paths :
            Count(Flatten(groups_of_images), e) = Count(preview_images, e)

C1_Witness ==
    /\ dialog = "preview"
    /\ scan_mode = "Alternate"
    /\ interval_spin = 2
    /\ n = 3
    /\ Len(groups_of_images) = 2

\* C2: no group of the returned sequence is empty.
C2_NoEmptyGroup ==
    Returned =>
        \A k \in 1..Len(groups_of_images) : groups_of_images[k] # <<>>

\* C3: with zero entries to group, every mode returns the empty sequence
\* of groups.
C3_EmptyInputEmptyOutput ==
    (Returned /\ n = 0) => groups_of_images = <<>>

\* C4: Alternate with interval > 1 returns min(interval, n) groups, and
\* group k holds the entries at positions k, k + interval, k + 2*interval,
\* ... below n, in increasing position.
C4_AlternateStride ==
    (Returned /\ scan_mode = "Alternate" /\ interval_spin > 1) =>
        /\ Len(groups_of_images) = Min(interval_spin, n)
        /\ \A k \in 0..(Len(groups_of_images) - 1) :
             LET group == groups_of_images[k + 1]
                 positions == {p \in 0..(n - 1) : p % interval_spin = k}
             IN  /\ Len(group) = Cardinality(positions)
                 /\ \A j \in 0..(Len(group) - 1) :
                        group[j + 1] = preview_images[k + j * interval_spin + 1]

C4_Witness ==
    /\ dialog = "preview"
    /\ scan_mode = "Alternate"
    /\ interval_spin = 2
    /\ n = 3
    /\ Len(groups_of_images[1]) = 2
    /\ Len(groups_of_images[2]) = 1

\* C5: Group of X returns ceil(n / interval) groups, group j holding the
\* entries at positions j*interval .. min((j+1)*interval, n) - 1 in order.
C5_GroupOfXChunks ==
    (Returned /\ scan_mode = "Group of X") =>
        /\ Len(groups_of_images) = (n + interval_spin - 1) \div interval_spin
        /\ \A j \in 0..(Len(groups_of_images) - 1) :
             LET group == groups_of_images[j + 1]
                 first == j * interval_spin
                 last  == Min((j + 1) * interval_spin, n) - 1
             IN  /\ Len(group) = last - first + 1
                 /\ \A i \in 0..(Len(group) - 1) :
                        group[i + 1] = preview_images[first + i + 1]
                 /\ (j + 1 < Len(groups_of_images)) => Len(group) = interval_spin

C5_Witness ==
    /\ dialog = "preview"
    /\ scan_mode = "Group of X"
    /\ interval_spin = 2
    /\ n = 3
    /\ Len(groups_of_images) = 2

\* C6: Pair returns ceil(n / 2) groups; group j is entries 2j and 2j+1,
\* except that for odd n the last group is entry n-1 alone.
C6_PairChunks ==
    (Returned /\ scan_mode = "Pair") =>
        /\ Len(groups_of_images) = (n + 1) \div 2
        /\ \A j \in 0..(Len(groups_of_images) - 1) :
             groups_of_images[j + 1] =
                 IF 2 * j + 1 < n
                 THEN <<preview_images[2 * j + 1], preview_images[2 * j + 2]>>
                 ELSE <<preview_images[n]>>

C6_Witness ==
    /\ dialog = "preview"
    /\ scan_mode = "Pair"
    /\ n = 3
    /\ Len(groups_of_images) = 2

\* C7: Single returns n groups, the i-th being the i-th entry alone.
C7_SingleGroups ==
    (Returned /\ scan_mode = "Single") =>
        /\ Len(groups_of_images) = n
        /\ \A i \in 1..n : groups_of_images[i] = <<preview_images[i]>>

C7_Witness ==
    /\ dialog = "preview"
    /\ scan_mode = "Single"
    /\ n = 3

\* C8: All with at least one entry returns exactly one group, equal to the
\* whole input in input order.
C8_AllOneGroup ==
    (Returned /\ scan_mode = "All" /\ n >= 1) =>
        /\ Len(groups_of_images) = 1
        /\ groups_of_images[1] = preview_images

C8_Witness ==
    /\ dialog = "preview"
    /\ scan_mode = "All"
    /\ n = 3

\* C9: Alternate with interval <= 1 returns what All returns on the same
\* input (one group with all entries, or no group when there are none).
C9_AlternateOneIsAll ==
    (/\ Returned
     /\ scan_mode = "Alternate"
     /\ interval_spin <= 1
     /\ PreviewImages("All") = PreviewImages("Alternate")) =>
        groups_of_images = get_images_to_export("All", interval_spin)

\* C10: inside every returned group the entries keep the order they have in
\* the input: an entry that precedes another in a group precedes it in the
\* input as well.
C10_OrderInGroups ==
    Returned =>
        \A g \in 1..Len(groups_of_images) :
            LET group == groups_of_images[g]
            IN  \A i, j \in 1..Len(group) :
                    i < j => \E p, q \in 1..n :
                                 /\ p < q
                                 /\ preview_images[p] = group[i]
                                 /\ preview_images[q] = group[j]

C10_Witness ==
    /\ dialog = "preview"
    /\ scan_mode = "Alternate"
    /\ interval_spin = 2
    /\ preview_images = <<3, 1, 2>>
    /\ groups_of_images[1] = <<3, 2>>

\* ------------------------------------- claims on the main window, continued
\* C14: only "All" falls back to the whole catalog when nothing is
\* selected; the other modes then return no group whatever the catalog
\* holds; with a selection every mode groups exactly the selected entries.
C14_FallbackOnlyInAll ==
    Returned =>
        IF selected = <<>>
        THEN IF scan_mode = "All"
             THEN Flatten(groups_of_images) = images
             ELSE groups_of_images = <<>>
        ELSE \A e \in Paths :
                 Count(Flatten(groups_of_images), e) =
                     Cardinality({k \in 1..Len(selected) : images[selected[k] + 1] = e})

C14_Witness ==
    /\ dialog = "warning"
    /\ selected = <<>>
    /\ Len(images) = 3
    /\ scan_mode = "Pair"
    /\ groups_of_images = <<>>

\* C15: in the modes Single, Pair and All the returned groups are the same
\* for every value of the interval setting.
C15_IntervalIgnored ==
    (Returned /\ scan_mode \in {"Single", "Pair", "All"}) =>
        \A value \in Intervals :
            get_images_to_export(scan_mode, value) = groups_of_images

C15_Witness ==
    /\ dialog = "preview"
    /\ scan_mode = "Pair"
    /\ interval_spin = 3
    /\ n = 3
    /\ Len(groups_of_images) = 2

\* ---------------------------------------------- claims on one invocation
\* the entry sequence an invocation groups: its selection, or the catalog
\* when nothing is selected and the mode is "All"
EntrySequence(c) ==
    IF call[c].selected_images # <<>> THEN call[c].selected_images
    ELSE IF call[c].mode \in {"All"} THEN call[c].images
    ELSE <<>>

C18_NoInterference ==
    \A c \in Callers :
        Finished(c) =>
            LET alone == RunAlone(call[c].selected_images, call[c].images,
                                  call[c].mode, call[c].interval)
            IN  /\ call[c].pc = alone.pc
                /\ call[c].result = alone.result

C18_Witness ==
    /\ Finished(1) /\ Finished(2)
    /\ call[1].mode = "Alternate" /\ call[1].interval = 2
    /\ call[1].result = <<<<1, 3>>, <<2>>>>
    /\ call[2].mode = "Pair"
    /\ call[2].result = <<<<1, 2>>>>

\* C19: for every mode, every entry sequence and every interval >= 1 a
\* started invocation ends: it returns or raises.
C19_Terminates ==
    (call[1].pc = "start" /\ call[1].interval >= 1) ~> Finished(1)

C19_Witness ==
    /\ call[1].pc = "done"
    /\ call[1].mode = "Alternate"
    /\ call[1].interval = 3
    /\ call[1].result = <<<<1>>, <<2>>>>

\* ------------------------------------------------ claims on the metadata
\* C20: after any sequence of category assignments and removals, starting
\* from images without categories, no value list of any image and group
\* holds a value twice.
C20_NoDuplicateValues ==
    \A p \in Paths :
        \A k \in 1..Len(categories[p]) :
            LET values == categories[p][k].values
            IN  \A i, j \in 1..Len(values) : values[i] = values[j] => i = j

C20_Witness ==
    /\ Len(selected) = 2
    /\ categories[1] = <<[group |-> "Type", values |-> <<"Postcard", "CDV">>]>>
    /\ categories[2] = <<[group |-> "Type", values |-> <<"CDV", "Postcard">>]>>
    /\ categories[3] = <<[group |-> "Type", values |-> <<>>]>>

\* ------------------------------------------------- claims on the export
\* C13: an invocation of get_images_to_export (the step of preview_csv or
\* export_csv that opens its dialog) leaves the catalog, the metadata of
\* every image, the selection and the exported list as they were.
C13_GroupingFrame ==
    [][(dialog = "none" /\ dialog' # "none") =>
           /\ images' = images
           /\ selected' = selected
           /\ categories' = categories
           /\ details' = details
           /\ exported_images' = exported_images]_vars

C13_Witness ==
    /\ dialog = "preview"
    /\ scan_mode = "Pair"
    /\ Len(selected) = 3
    /\ Len(groups_of_images) = 2
    /\ Len(exported_images) = 2

\* C16: the export writes one data row per returned group, in group order;
\* row i has the joined filenames of group i and the physical size,
\* categories, text, comment and condition of the first entry of group i.
C16_OneRowPerGroup ==
    dialog = "exported" =>
        /\ Len(csv_file.rows) = Len(groups_of_images)
        /\ \A i \in 1..Len(groups_of_images) :
             LET group == groups_of_images[i]
                 row == csv_file.rows[i]
             IN  /\ row.filenames =
                        Join([k \in 1..Len(group) |-> Filename(group[k])], ", ")
                 /\ row.physical_size = PhysicalSize(group[1])
                 /\ row.categories_text = CategoriesText(categories[group[1]])
                 /\ row.text = details[group[1]].text
                 /\ row.comment = details[group[1]].comment
                 /\ row.condition = details[group[1]].condition

\* ------------------------------------------------ claims on the catalog
\* the elements of a set of numbers in increasing order
Ascending(S) ==
    [k \in 1..Cardinality(S) |-> CHOOSE r \in S : Cardinality({q \in S : q < r}) = k - 1]

\* the paths of a file list that are not in the catalog, each once, in the
\* order of their first occurrence
NewPaths(file_paths) ==
    LET first == SelectSeq([k \in 1..Len(file_paths) |-> k],
                           LAMBDA k : /\ ~Contains(images, file_paths[k])
                                      /\ \A j \in 1..(k - 1) : file_paths[j] # file_paths[k])
    IN  [m \in 1..Len(first) |-> file_paths[first[m]]]

NoDuplicatePaths ==
    \A i, j \in 1..Len(images) : i # j => images[i] # images[j]

\* C21: the catalog never holds two entries with the same file path, and
\* add_images appends exactly the paths that are new, each once, at the end
\* in the order given.
C21_NoDuplicatePaths ==
    /\ []NoDuplicatePaths
    /\ [][\A file_paths \in FileLists :
              \/ images' = images \o NewPaths(file_paths)
              \/ ~add_images(file_paths)]_vars

C21_Witness ==
    /\ images = <<3, 1, 2>>
    /\ \A p \in {1, 2, 3} : details[p] = NewDetails

\* the rows selected in the image list, and the entries in them
SelectedRows == {selected[k] : k \in 1..Len(selected)}

\* the entries of a catalog that are selected (not selected) now, in the
\* order they have in the catalog
SelectedOf(imgs) == SelectSeq(imgs, LAMBDA e : e \in SelectedSet)
UnselectedOf(imgs) == SelectSeq(imgs, LAMBDA e : e \notin SelectedSet)

\* every selected entry is delta positions further, both relative orders
\* are kept, and nothing is gained or lost
MovedBy(delta) ==
    /\ Len(images') = Len(images)
    /\ \A r \in SelectedRows : images'[r + delta + 1] = images[r + 1]
    /\ SelectedOf(images') = SelectedOf(images)
    /\ UnselectedOf(images') = UnselectedOf(images)

\* C22: move_selected_up moves every selected entry one position to the
\* front and keeps the order among the selected and among the unselected
\* entries; with nothing selected or row 0 selected it changes nothing.
\* move_selected_down mirrors it.  The catalog stays a permutation.
C22_MoveOnePosition ==
    [][/\ move_selected_up =>
            IF SelectedRows = {} \/ 0 \in SelectedRows
            THEN images' = images
            ELSE MovedBy(0 - 1)
       /\ move_selected_down =>
            IF SelectedRows = {} \/ (Len(images) - 1) \in SelectedRows
            THEN images' = images
            ELSE MovedBy(1)
       /\ (move_selected_up \/ move_selected_down) =>
            \A e \in Paths : Count(images', e) = Count(images, e)]_vars

C22_Witness ==
    /\ images = <<2, 3, 1>>
    /\ image_list = <<1, 2, 1>>
    /\ selected = <<1>>
    /\ dialog = "none"

\* C23: a confirmed delete_selected removes exactly the entries of the
\* selected rows and keeps the others in order; answered No, or with
\* nothing selected, it leaves the catalog as it was.
C23_DeleteExactlySelected ==
    [][/\ delete_confirmed =>
            LET kept == Ascending((0..(Len(images) - 1)) \ SelectedRows)
            IN  images' = [k \in 1..Len(kept) |-> images[kept[k] + 1]]
       /\ delete_selected => images' = images
       /\ (dialog = "confirm_delete" /\ dialog_closed) => images' = images]_vars

C23_Witness ==
    /\ images = <<2>>
    /\ image_list = <<1>>
    /\ selected = <<>>
    /\ dialog = "none"

\* C26: the image list widget and the catalog have the same length, row i
\* of the widget shows the file name of catalog entry i, and every selected
\* row is a row of the catalog.
C26_ListAligned ==
    /\ Len(image_list) = Len(images)
    /\ \A i \in 1..Len(images) : image_list[i] = Filename(images[i])
    /\ \A k \in 1..Len(selected) : selected[k] \in 0..(Len(images) - 1)

C26_Witness ==
    /\ images = <<3, 1, 2>>
    /\ image_list = <<2, 1, 1>>
    /\ selected = <<2, 0>>

\* --------------------------------------------- claims on the exported list
\* C24: the exported-images list never holds an entry twice, and right after
\* a successful export every entry of every exported group is in it.
C24_ExportedOnce ==
    /\ \A i, j \in 1..Len(exported_images) :
           i # j => exported_images[i] # exported_images[j]
    /\ dialog = "exported" =>
           \A k \in 1..Len(groups_of_images) :
               \A m \in 1..Len(groups_of_images[k]) :
                   Contains(exported_images, groups_of_images[k][m])

C24_Witness ==
    /\ dialog = "exported"
    /\ scan_mode = "Pair"
    /\ groups_of_images = <<<<3, 1>>, <<2>>>>
    /\ exported_images = <<1, 3, 2>>

\* the exported list has nothing to export from: no row is selected and,
\* in mode All, the catalog is empty
NothingToExport == selected = <<>> /\ (scan_mode = "All" => images = <<>>)

\* C25: export_csv with nothing to export shows the "No images to export"
\* warning; it asks for no file, writes none and leaves the exported list.
C25_WarnsWithoutFile ==
    [][(export_csv /\ NothingToExport) =>
           /\ dialog' = "export_warning"
           /\ csv_file' = csv_file
           /\ exported_images' = exported_images]_vars

\* C27: the exported list widget and exported_images have the same length
\* and row i shows the file name of exported_images[i];
\* transfer_back_to_list1 removes exactly the entries of the selected rows.
C27_ExportedAligned ==
    /\ [](/\ Len(exported_list) = Len(exported_images)
          /\ \A i \in 1..Len(exported_images) :
                 exported_list[i] = Filename(exported_images[i]))
    /\ [][transfer_back_to_list1 =>
            LET rows == {exported_selected[k] : k \in 1..Len(exported_selected)}
                kept == Ascending((0..(Len(exported_images) - 1)) \ rows)
            IN  exported_images' = [k \in 1..Len(kept) |-> exported_images[kept[k] + 1]]]_vars

C27_Witness ==
    /\ exported_images = <<3, 1>>
    /\ exported_list = <<2, 1>>
    /\ exported_selected = <<0>>
    /\ dialog = "none"

\* ------------------------------------------- Alternate and Group of X
\* group[pos] exists in a sequence of groups
HasEntry(groups, g, pos) == g \in 1..Len(groups) /\ pos \in 1..Len(groups[g])

\* C28: for every input and every interval > 1, Alternate is the transpose
\* of Group of X with that interval: entry j of Alternate's group k is
\* entry k of Group of X's group j, whenever either exists.
C28_AlternateTransposesGroupOfX ==
    (/\ Finished(1) /\ Finished(2)
     /\ call[1].mode = "Group of X" /\ call[2].mode = "Alternate"
     /\ call[1].interval = call[2].interval
     /\ call[1].interval > 1
     /\ EntrySequence(1) = EntrySequence(2)) =>
        LET chunks == call[1].result
            strides == call[2].result
            positions == 1..Max(MaxImages, MaxInterval)
        IN  \A k, j \in positions :
                /\ HasEntry(strides, k, j) <=> HasEntry(chunks, j, k)
                /\ HasEntry(strides, k, j) => strides[k][j] = chunks[j][k]

C28_Witness ==
    /\ Finished(1) /\ Finished(2)
    /\ call[1].mode = "Group of X" /\ call[2].mode = "Alternate"
    /\ call[1].interval = 2 /\ call[2].interval = 2
    /\ call[1].result = <<<<1, 2>>, <<3>>>>
    /\ call[2].result = <<<<1, 3>>, <<2>>>>

\* ------------------------------------------- claims on the preview dialog
\* C30: in the image preview dialog, which opens on a non-empty list, the
\* current index stays within 0..len(images)-1 and the rotation within
\* {0, 90, 180, 270}; show_next at the last image and show_previous at the
\* first one change nothing.
C30_IndexAndRotationInRange ==
    /\ [](dialog = "image_preview" =>
            /\ preview_dialog.images # <<>>
            /\ preview_dialog.current_index \in 0..(Len(preview_dialog.images) - 1)
            /\ preview_dialog.rotation \in {0, 90, 180, 270})
    /\ [][/\ (show_next /\ preview_dialog.current_index = Len(preview_dialog.images) - 1)
               => preview_dialog' = preview_dialog
          /\ (show_previous /\ preview_dialog.current_index = 0)
               => preview_dialog' = preview_dialog]_vars

C30_Witness ==
    /\ dialog = "image_preview"
    /\ Len(preview_dialog.images) = 3
    /\ preview_dialog.current_index = 2
    /\ preview_dialog.rotation = 270
    /\ preview_dialog.zoom_level = 0 - 1

\* ------------------------------------------ claims on the category manager
\* what load_categories returns, read as groups and values
LoadedValue == DictValue(load_categories)

\* C29: Cancel discards the edits made in the Category Manager: the
\* categories the main window loads after it are the categories the window
\* had when the dialog was opened, with a categories file and without.
C29_CancelDiscardsEdits ==
    [][reject => LoadedValue' = categories_before]_vars
====
